---------------------------- MODULE Spec2Model ----------------------------
(***************************************************************************)
(* Model of the reactive filtering and derived-metrics layer of the        *)
(* private-equity GP dashboard (src/app.py).                               *)
(*                                                                         *)
(* State: the module-level tables (funds, companies, cashflows,            *)
(* pipeline_data, lp_data), and per session the two sidebar inputs         *)
(* (fund_filter, year_filter) and the caches of the two reactive.calc      *)
(* objects (filtered_funds, filtered_companies).  A cache holds a          *)
(* REFERENCE to a table object: `alias` says that the object is the        *)
(* module-level table itself, otherwise `df` is an object owned by the     *)
(* cache.  Every output of server() that reads a table is one action; the  *)
(* two fixed pie charts, the download of a file from disk and the button   *)
(* handler touch no table and are left out.  `cumulative` is the table     *)
(* cumulative_cashflow plotted last.                                       *)
(*                                                                         *)
(* Conventions: a table is [columns, index, data]; a row is a function     *)
(* from column name to cell.  Year cells are Python str-or-None values,    *)
(* kept as [isna, s] with s the characters of the string.  Floats of the   *)
(* literal data (IRR, MOIC, ...) are kept as hundredths.                   *)
(***************************************************************************)
EXTENDS Integers, Sequences, FiniteSets, TLC

VARIABLES funds, companies, cashflows, pipeline_data, lp_data,
          fund_filter, year_filter, ff, fc, cumulative

globals == <<funds, companies, cashflows, pipeline_data, lp_data>>
vars == <<funds, companies, cashflows, pipeline_data, lp_data,
          fund_filter, year_filter, ff, fc, cumulative>>

\* Concurrent browser sessions; server() runs once for each.
Sessions == {"s1", "s2"}

\* Largest number of names in one fund selection.
MaxSel == 1

-----------------------------------------------------------------------------
(* Cells and strings *)

Range(f) == {f[i] : i \in DOMAIN f}

Str(chars) == [isna |-> FALSE, s |-> chars]
None == [isna |-> TRUE, s |-> <<>>]

DigitChars == <<"0", "1", "2", "3", "4", "5", "6", "7", "8", "9">>
IsDigit(c) == \E i \in 1..10 : DigitChars[i] = c
DigitVal(c) == (CHOOSE i \in 1..10 : DigitChars[i] = c) - 1

RECURSIVE LStrip(_)
LStrip(s) == IF s # <<>> /\ Head(s) = " " THEN LStrip(Tail(s)) ELSE s

RECURSIVE RStrip(_)
RStrip(s) ==
    IF s # <<>> /\ s[Len(s)] = " " THEN RStrip(SubSeq(s, 1, Len(s) - 1)) ELSE s

\* Python's integer literal body: digits, single underscores between digits.
ValidDigits(d) ==
    /\ d # <<>>
    /\ \A i \in 1..Len(d) :
          \/ IsDigit(d[i])
          \/ /\ d[i] = "_"
             /\ 1 < i /\ i < Len(d)
             /\ IsDigit(d[i - 1]) /\ IsDigit(d[i + 1])

RECURSIVE DigitsValue(_, _)
DigitsValue(d, acc) ==
    IF d = <<>> THEN acc
    ELSE IF Head(d) = "_" THEN DigitsValue(Tail(d), acc)
    ELSE DigitsValue(Tail(d), acc * 10 + DigitVal(Head(d)))

\* int(x) as Series.astype(int) applies it to one object cell:
\* [ok |-> FALSE] stands for the ValueError / TypeError it raises.
PyInt(x) ==
    IF x.isna THEN [ok |-> FALSE, val |-> 0]
    ELSE LET t == RStrip(LStrip(x.s))
             signed == t # <<>> /\ t[1] \in {"+", "-"}
             d == IF signed THEN Tail(t) ELSE t
         IN  IF ValidDigits(d)
             THEN [ok |-> TRUE,
                   val |-> IF signed /\ t[1] = "-"
                           THEN 0 - DigitsValue(d, 0) ELSE DigitsValue(d, 0)]
             ELSE [ok |-> FALSE, val |-> 0]

\* str(n) for 0 <= n < 10^w, zero-padded to w characters (date.isoformat).
RECURSIVE Digits(_, _)
Digits(n, w) ==
    IF w = 0 THEN <<>> ELSE Append(Digits(n \div 10, w - 1), DigitChars[(n % 10) + 1])

\* cashflows['Date'].dt.date.astype('string'): YYYY-MM-DD
DateString(d) == Digits(d[1], 4) \o <<"-">> \o Digits(d[2], 2) \o <<"-">> \o Digits(d[3], 2)

\* Code-point order of the characters that occur in the Date strings.
CharOrder == <<"-", "0", "1", "2", "3", "4", "5", "6", "7", "8", "9">>
Ord(c) == CHOOSE i \in 1..Len(CharOrder) : CharOrder[i] = c

\* a < b for Python str (lexicographic by code point).
RECURSIVE StrLess(_, _)
StrLess(a, b) ==
    IF b = <<>> THEN FALSE
    ELSE IF a = <<>> THEN TRUE
    ELSE IF Head(a) = Head(b) THEN StrLess(Tail(a), Tail(b))
    ELSE Ord(Head(a)) < Ord(Head(b))

-----------------------------------------------------------------------------
(* Tables *)

\* pd.DataFrame({...}): default RangeIndex 0..n-1
DataFrame(cols, rows) ==
    [columns |-> cols,
     index   |-> [i \in 1..Len(rows) |-> i - 1],
     data    |-> [i \in 1..Len(rows) |-> [c \in Range(cols) |-> rows[i][
                     CHOOSE k \in 1..Len(cols) : cols[k] = c]]]]

NRows(df) == Len(df.data)
Column(df, c) == [i \in 1..NRows(df) |-> df.data[i][c]]

RECURSIVE KeepIdx(_, _)
KeepIdx(mask, i) ==
    IF i > Len(mask) THEN <<>>
    ELSE IF mask[i] THEN <<i>> \o KeepIdx(mask, i + 1) ELSE KeepIdx(mask, i + 1)

\* df[mask]: a new object with the rows whose mask is True, labels kept.
BoolIndex(df, mask) ==
    LET keep == KeepIdx(mask, 1)
    IN  [columns |-> df.columns,
         index   |-> [k \in 1..Len(keep) |-> df.index[keep[k]]],
         data    |-> [k \in 1..Len(keep) |-> df.data[keep[k]]]]

\* Series.isin(values)
isin(col, values) == [i \in 1..Len(col) |-> col[i] \in values]

\* df[c] = values: the column is replaced, or appended as the last column.
SetColumn(df, c, values) ==
    [columns |-> IF c \in Range(df.columns) THEN df.columns ELSE Append(df.columns, c),
     index   |-> df.index,
     data    |-> [i \in 1..NRows(df) |->
                    [k \in (DOMAIN df.data[i]) \cup {c} |->
                        IF k = c THEN values[i] ELSE df.data[i][k]]]]

RECURSIVE SumSeq(_)
SumSeq(s) == IF s = <<>> THEN 0 ELSE Head(s) + SumSeq(Tail(s))

\* Series.astype(int) on an object column: every cell goes through int(),
\* and the first failure raises for the whole column.
astype_int(col) ==
    IF \A i \in 1..Len(col) : PyInt(col[i]).ok
    THEN [ok |-> TRUE, v |-> [i \in 1..Len(col) |-> PyInt(col[i]).val]]
    ELSE [ok |-> FALSE, v |-> <<>>]

\* Series.fillna(value)
fillna(col, value) == [i \in 1..Len(col) |-> IF col[i].isna THEN value ELSE col[i]]

-----------------------------------------------------------------------------
(* Sample data *)

FundColumns ==
    <<"Fund", "Commitment", "Called", "Distributions", "NAV",
      "IRR", "MOIC", "DPI", "RVPI", "TVPI">>

funds0 ==
    DataFrame(FundColumns,
      << <<"Fund I",   100,  90,  60,  40, 1250, 110, 60, 44, 104>>,
         <<"Fund II",  200, 180, 150,  60, 1480, 130, 75, 33, 108>>,
         <<"Fund III", 300, 250, 200, 100, 1730, 150, 80, 40, 120>> >>)

CompanyColumns ==
    <<"Company", "Fund", "Investment Date", "Exit Date", "Cost", "Value", "MOIC">>

Y2018 == Str(<<"2", "0", "1", "8">>)
Y2019 == Str(<<"2", "0", "1", "9">>)
Y2020 == Str(<<"2", "0", "2", "0">>)
Y2021 == Str(<<"2", "0", "2", "1">>)
Y2022 == Str(<<"2", "0", "2", "2">>)
Y2025 == Str(<<"2", "0", "2", "5">>)

companies0 ==
    DataFrame(CompanyColumns,
      << <<"Alpha", "Fund I",   Y2018, Y2022, 10, 25, 250>>,
         <<"Beta",  "Fund II",  Y2019, None,  15, 20, 133>>,
         <<"Gamma", "Fund II",  Y2020, None,  12, 13, 108>>,
         <<"Delta", "Fund III", Y2021, None,  20, 30, 150>> >>)

CashflowColumns == <<"Date", "Type", "Amount", "Fund">>

\* pd.date_range("2018-01-01", periods=8, freq='QE'): the quarter ends.
QuarterEnds ==
    << <<2018, 3, 31>>, <<2018, 6, 30>>, <<2018, 9, 30>>, <<2018, 12, 31>>,
       <<2019, 3, 31>>, <<2019, 6, 30>>, <<2019, 9, 30>>, <<2019, 12, 31>> >>

CashflowLiterals ==
    << <<"Investment", -10, "Fund I">>,  <<"Investment", -15, "Fund I">>,
       <<"Follow-on",   -5, "Fund I">>,  <<"Exit",        30, "Fund I">>,
       <<"Dividend",     2, "Fund I">>,  <<"Investment", -20, "Fund II">>,
       <<"Exit",        40, "Fund II">>, <<"Dividend",     5, "Fund II">> >>

cashflows0 ==
    DataFrame(CashflowColumns,
      [i \in 1..8 |-> <<DateString(QuarterEnds[i]), CashflowLiterals[i][1],
                        CashflowLiterals[i][2], CashflowLiterals[i][3]>>])

pipeline_data0 ==
    DataFrame(<<"Deal", "Stage", "Lead Partner">>,
      << <<"Startup A", "Screening",     "Aditya">>,
         <<"Startup B", "Due Diligence", "Siddharth">>,
         <<"Startup C", "IC",            "Adrian">>,
         <<"Startup D", "Closed",        "Aditya">>,
         <<"Startup E", "IC",            "Adrian">>,
         <<"Startup F", "Closed",        "Aditya">> >>)

lp_data0 ==
    DataFrame(<<"LP Name", "Commitment ($M)", "Type", "Email", "Phone">>,
      << <<"Sovereign Fund A", 50, "Sovereign",     "lpA@example.com", "+62 812-3456">>,
         <<"Family Office B",  10, "Family Office", "lpB@example.com", "+65 9123-4567">>,
         <<"Institutional C",  30, "Institution",   "lpC@example.com", "+1 415-234-5678">> >>)

-----------------------------------------------------------------------------
(* Inputs *)

\* ui.input_slider("year_filter", "Investment Year", 2015, 2025, 2018)
YearMin == 2015
YearMax == 2025
YearInit == 2018

\* choices=list(funds["Fund"]), multiple=True.  The names the sessions send:
\* two of the choices, and a name that is no fund (a client message may carry
\* any name).
FundNames == {"Fund I", "Fund II", "Fund X"}
Selections == {S \in SUBSET FundNames : Cardinality(S) <= MaxSel}

\* Slider positions: the two that concurrent sessions use, and the ones that
\* separate the investment years of the literal companies.
CutoffYears == {YearInit, YearInit + 1}
SliderYears == {YearMin, YearMax} \cup (YearInit..(YearInit + 3))

-----------------------------------------------------------------------------
(* reactive.calc *)

NoTable == [columns |-> <<>>, index |-> <<>>, data |-> <<>>]

Invalid == [state |-> "invalid", alias |-> FALSE, df |-> NoTable]
\* the function raised; a calc keeps the exception and raises it again
Raised == [state |-> "error", alias |-> FALSE, df |-> NoTable]
\* a value that is an object of its own
Fresh(df) == [state |-> "value", alias |-> FALSE, df |-> df]
\* a value that is the module-level table object itself
Global == [state |-> "value", alias |-> TRUE, df |-> NoTable]

\* The table a calc value refers to.
Deref(v, global) == IF v.alias THEN global ELSE v.df

\* One cache for all sessions, as for a calc created at module level.
StoreCalc_shared(cache, s, v) == [t \in DOMAIN cache |-> v]

\* A calc's cache belongs to the session whose server() call created it.
StoreCalc(cache, s, v) == [cache EXCEPT ![s] = v]

\* Calling a calc: run the function when the cache is invalid and keep the
\* result (a value or the exception), otherwise hand out the cached object.
CallCalc(cache, s, result) ==
    IF cache[s].state = "invalid" THEN StoreCalc(cache, s, result) ELSE cache

Invalidate(cache, s) == [cache EXCEPT ![s] = Invalid]

\* Without the "else funds": the empty selection keeps no fund.
filtered_funds_isin_only(selected) ==
    Fresh(BoolIndex(funds, isin(Column(funds, "Fund"), selected)))

\* funds[funds["Fund"].isin(selected)] if selected else funds
filtered_funds(selected) ==
    IF selected # {}
    THEN Fresh(BoolIndex(funds, isin(Column(funds, "Fund"), selected)))
    ELSE Global

\* "<" for "<=": the cutoff year itself is left out.
filtered_companies_exclusive(selected, year) ==
    LET df == companies
        years == astype_int(Column(df, "Investment Date"))
    IN  IF ~years.ok THEN Raised
        ELSE LET byYear == BoolIndex(df, [i \in 1..NRows(df) |-> years.v[i] < year])
             IN  IF selected # {}
                 THEN Fresh(BoolIndex(byYear, isin(Column(byYear, "Fund"), selected)))
                 ELSE Fresh(byYear)

\* The pattern of filtered_funds: the module-level table itself is handed out
\* when nothing is selected.
filtered_companies_shared(selected, year) ==
    LET years == astype_int(Column(companies, "Investment Date"))
    IN  IF selected = {} THEN Global
        ELSE IF ~years.ok THEN Raised
        ELSE Fresh(BoolIndex(companies,
                 [i \in 1..NRows(companies) |->
                     years.v[i] <= year /\ companies.data[i]["Fund"] \in selected]))

\* Years that do not parse are dropped with their rows (errors="coerce").
filtered_companies_coerce(selected, year) ==
    LET ok == BoolIndex(companies,
                 [i \in 1..NRows(companies) |->
                     PyInt(companies.data[i]["Investment Date"]).ok])
        years == astype_int(Column(ok, "Investment Date"))
        byYear == BoolIndex(ok, [i \in 1..NRows(ok) |-> years.v[i] <= year])
    IN  IF selected # {}
        THEN Fresh(BoolIndex(byYear, isin(Column(byYear, "Fund"), selected)))
        ELSE Fresh(byYear)

\* df = companies.copy(); every df[mask] below is a new object again.
filtered_companies(selected, year) ==
    LET df == companies
        years == astype_int(Column(df, "Investment Date"))
    IN  IF ~years.ok THEN Raised
        ELSE LET byYear == BoolIndex(df, [i \in 1..NRows(df) |-> years.v[i] <= year])
             IN  IF selected # {}
                 THEN Fresh(BoolIndex(byYear, isin(Column(byYear, "Fund"), selected)))
                 ELSE Fresh(byYear)

\* The object filtered_funds() / filtered_companies() returns to session s
\* after the call (the cache as it is then).
FundsAfterCall(s) == CallCalc(ff, s, filtered_funds(fund_filter[s]))[s]
CompaniesAfterCall(s) ==
    CallCalc(fc, s, filtered_companies(fund_filter[s], year_filter[s]))[s]

-----------------------------------------------------------------------------
(* Derived values *)

\* "Total Called" summed from the Commitment column.
summary_wrong_column(df) ==
    << <<"Total Commitment",    SumSeq(Column(df, "Commitment"))>>,
       <<"Total Called",        SumSeq(Column(df, "Commitment"))>>,
       <<"Total Distributions", SumSeq(Column(df, "Distributions"))>>,
       <<"NAV",                 SumSeq(Column(df, "NAV"))>> >>

\* summary_table: the four (Metric, Value) rows
summary(df) ==
    << <<"Total Commitment",    SumSeq(Column(df, "Commitment"))>>,
       <<"Total Called",        SumSeq(Column(df, "Called"))>>,
       <<"Total Distributions", SumSeq(Column(df, "Distributions"))>>,
       <<"NAV",                 SumSeq(Column(df, "NAV"))>> >>

\* The missing exit year filled with the investment year: holding 0.
Holding_no_sentinel(df) ==
    LET inv == astype_int(Column(df, "Investment Date"))
        exit == astype_int([i \in 1..NRows(df) |->
                    IF df.data[i]["Exit Date"].isna
                    THEN df.data[i]["Investment Date"] ELSE df.data[i]["Exit Date"]])
    IN  IF exit.ok /\ inv.ok
        THEN [ok |-> TRUE, v |-> [i \in 1..NRows(df) |-> exit.v[i] - inv.v[i]]]
        ELSE [ok |-> FALSE, v |-> <<>>]

\* df["Exit Date"].fillna("2025").astype(int) - df["Investment Date"].astype(int)
Holding(df) ==
    LET exit == astype_int(fillna(Column(df, "Exit Date"), Y2025))
        inv == astype_int(Column(df, "Investment Date"))
    IN  IF exit.ok /\ inv.ok
        THEN [ok |-> TRUE, v |-> [i \in 1..NRows(df) |-> exit.v[i] - inv.v[i]]]
        ELSE [ok |-> FALSE, v |-> <<>>]

\* cashflows.groupby("Type")["Amount"].sum(): one total for each type
breakdown(df) ==
    [t \in Range(Column(df, "Type")) |->
        SumSeq(Column(BoolIndex(df, isin(Column(df, "Type"), {t})), "Amount"))]

\* The orders sort_values("Date") may produce: ascending by Date.  No kind is
\* passed, and the default kind ("quicksort") is not a stable sort: rows of
\* equal Date come out in an order the sorting library chooses.
RECURSIVE SortedOrders(_, _)
SortedOrders(df, left) ==
    IF left = {} THEN {<<>>}
    ELSE UNION {{<<m>> \o rest : rest \in SortedOrders(df, left \ {m})} :
                m \in {i \in left : \A j \in left :
                          ~StrLess(df.data[j]["Date"], df.data[i]["Date"])}}

sort_values(df) == SortedOrders(df, 1..NRows(df))

Reorder(df, order) ==
    [columns |-> df.columns,
     index   |-> [k \in 1..Len(order) |-> df.index[order[k]]],
     data    |-> [k \in 1..Len(order) |-> df.data[order[k]]]]

\* groupby("Fund")["Amount"].cumsum(): running total within each fund, in the
\* row order of the table.
cumsum_by_fund(df) ==
    [i \in 1..NRows(df) |->
        SumSeq(Column(BoolIndex(df, [j \in 1..NRows(df) |->
                   j <= i /\ df.data[j]["Fund"] = df.data[i]["Fund"]]), "Amount"))]

\* The tables cumulative_cashflow may plot.
cumulative_cashflow_results ==
    {SetColumn(Reorder(cashflows, o), "Cumulative",
               cumsum_by_fund(Reorder(cashflows, o))) : o \in sort_values(cashflows)}

-----------------------------------------------------------------------------
(* Input messages *)

\* A new value of input.fund_filter invalidates both calcs of the session.
SetFundFilter(s, selections) ==
    \E S \in selections :
        /\ S # fund_filter[s]
        /\ fund_filter' = [fund_filter EXCEPT ![s] = S]
        /\ ff' = Invalidate(ff, s)
        /\ fc' = Invalidate(fc, s)
        /\ UNCHANGED <<globals, year_filter, cumulative>>

\* A new value of input.year_filter invalidates filtered_companies only.
SetYearFilter(s, years) ==
    \E y \in years :
        /\ y # year_filter[s]
        /\ year_filter' = [year_filter EXCEPT ![s] = y]
        /\ fc' = Invalidate(fc, s)
        /\ UNCHANGED <<globals, fund_filter, ff, cumulative>>

-----------------------------------------------------------------------------
(* Outputs.  An output runs when the runtime schedules it (first display,   *)
(* resume of a hidden tab, invalidation); the order among the outputs of    *)
(* one session, and among sessions, is the runtime's.                       *)

\* The outputs that only read filtered_funds().
ReadFunds(s) ==
    /\ ff' = CallCalc(ff, s, filtered_funds(fund_filter[s]))
    /\ UNCHANGED <<globals, fund_filter, year_filter, fc, cumulative>>

\* The outputs that only read filtered_companies().
ReadCompanies(s) ==
    /\ fc' = CallCalc(fc, s, filtered_companies(fund_filter[s], year_filter[s]))
    /\ UNCHANGED <<globals, fund_filter, year_filter, ff, cumulative>>

summary_table(s) == ReadFunds(s)
fund_metrics(s) == ReadFunds(s)
irr_comparison(s) == ReadFunds(s)
deployment_timeline(s) == ReadCompanies(s)
company_table(s) == ReadCompanies(s)
value_creation(s) == ReadCompanies(s)

\* df = filtered_companies(); df["Holding"] = ...: the assignment is made on
\* the object the calc returned.
holding_period(s) ==
    LET called == CallCalc(fc, s, filtered_companies(fund_filter[s], year_filter[s]))
        v == called[s]
        df == Deref(v, companies)
        h == Holding(df)
    IN  /\ IF v.state = "value" /\ h.ok
           THEN IF v.alias
                THEN /\ companies' = SetColumn(df, "Holding", h.v)
                     /\ fc' = called
                ELSE /\ fc' = StoreCalc(called, s, Fresh(SetColumn(df, "Holding", h.v)))
                     /\ companies' = companies
           ELSE /\ fc' = called
                /\ companies' = companies
        /\ UNCHANGED <<funds, cashflows, pipeline_data, lp_data,
                       fund_filter, year_filter, ff, cumulative>>

\* px.line(cashflows, ...) reads cashflows.
cashflow_timeline(s) == UNCHANGED vars

\* Reads cashflows; groupby(...).sum().reset_index() is a new object.
cashflow_breakdown(s) == UNCHANGED vars

\* df = cashflows.sort_values("Date") is a new object; the Cumulative column
\* is set on it.
cumulative_cashflow(s) ==
    /\ cumulative' \in cumulative_cashflow_results
    /\ UNCHANGED <<globals, fund_filter, year_filter, ff, fc>>

\* px.histogram(pipeline_data, ...) reads pipeline_data.
pipeline_chart(s) == UNCHANGED vars

\* return pipeline_data
pipeline_table(s) == UNCHANGED vars

\* pipeline_data.to_excel(file, index=False) reads pipeline_data.
download_deals(s) == UNCHANGED vars

\* sum, mean and row count of lp_data
lp_summary(s) == UNCHANGED vars

\* px.bar(lp_data, ...) reads lp_data.
lp_commitments_chart(s) == UNCHANGED vars

\* return lp_data[[...]]: a new object
lp_directory(s) == UNCHANGED vars

-----------------------------------------------------------------------------------------------------------------------------------------------------
(* Specifications *)

InitSession ==
    /\ fund_filter = [s \in Sessions |-> {}]
    /\ year_filter = [s \in Sessions |-> YearInit]
    /\ ff = [s \in Sessions |-> Invalid]
    /\ fc = [s \in Sessions |-> Invalid]
    /\ cumulative = NoTable

Init ==
    /\ funds = funds0
    /\ companies = companies0
    /\ cashflows = cashflows0
    /\ pipeline_data = pipeline_data0
    /\ lp_data = lp_data0
    /\ InitSession

SessionStep(s, selections, years) ==
    \/ SetFundFilter(s, selections)
    \/ SetYearFilter(s, years)
    \/ summary_table(s)
    \/ fund_metrics(s)
    \/ irr_comparison(s)
    \/ deployment_timeline(s)
    \/ company_table(s)
    \/ value_creation(s)
    \/ holding_period(s)
    \/ cashflow_timeline(s)
    \/ cashflow_breakdown(s)
    \/ cumulative_cashflow(s)
    \/ pipeline_chart(s)
    \/ pipeline_table(s)
    \/ download_deals(s)
    \/ lp_summary(s)
    \/ lp_commitments_chart(s)
    \/ lp_directory(s)

\* The program: the literal tables, sessions running concurrently.
Next == \E s \in Sessions : SessionStep(s, Selections, CutoffYears)

Spec == Init /\ [][Next]_vars

\* The derived views as functions of their inputs: one session, every slider
\* position, and tables that differ from the literal ones in one cell.
WithCell(df, i, c, x) == [df EXCEPT !.data[i][c] = x]

YearCells ==
    {Str(<<"2", "0", "x", "9">>), Str(<<" ", "2", "0", "1", "9", " ">>),
     Str(<<"2", "_", "0", "1", "7">>), Str(<<>>), None}

CompanyTables ==
    {companies0}
    \cup {WithCell(companies0, i, "Investment Date", x) : i \in {1, 3}, x \in YearCells}
    \cup {WithCell(companies0, 2, "Exit Date", x) : x \in {Y2020, Str(<<"n", "a">>)}}

TieRows == {2, 7}
TieDates == {1, 8}
CashflowTables ==
    {WithCell(cashflows0, i, "Date", DateString(QuarterEnds[j])) :
        i \in TieRows, j \in TieDates}

InitData ==
    /\ funds = funds0
    /\ \/ companies \in CompanyTables /\ cashflows = cashflows0
       \/ companies = companies0 /\ cashflows \in CashflowTables
    /\ pipeline_data = pipeline_data0
    /\ lp_data = lp_data0
    /\ InitSession

NextData == SessionStep("s1", SUBSET FundNames, SliderYears)

SpecData == InitData /\ [][NextData]_vars

-----------------------------------------------------------------------------
(* Properties *)

Increasing(seq) == \A i, j \in 1..Len(seq) : i < j => seq[i] < seq[j]

\* The rows of `of` that carry the labels of df, in df's order, agree with df
\* on the columns cols.
AgreesOn(df, of, cols) ==
    \A k \in 1..NRows(df) :
        \E i \in 1..NRows(of) :
            /\ of.index[i] = df.index[k]
            /\ \A c \in Range(cols) : df.data[k][c] = of.data[i][c]

InvestmentYear(i) == PyInt(companies.data[i]["Investment Date"])
YearsParse == \A i \in 1..NRows(companies) : InvestmentYear(i).ok

\* Company i passes both predicates.
Wanted(i, S, Y) ==
    /\ InvestmentYear(i).val <= Y
    /\ S = {} \/ companies.data[i]["Fund"] \in S

\* The fund filter applied before the year filter.
FundThenYear(S, Y) ==
    LET byFund == IF S # {}
                  THEN BoolIndex(companies, isin(Column(companies, "Fund"), S))
                  ELSE companies
        years == astype_int(Column(byFund, "Investment Date"))
    IN  BoolIndex(byFund, [i \in 1..NRows(byFund) |-> years.v[i] <= Y])

\* C1: filtered_companies returns exactly the companies with investment year
\* (as an integer) <= the cutoff and, for a non-empty selection, a fund in the
\* selection, in original order; the fund filter applied first gives the same
\* rows; on the literal data, no selection and cutoff 2019 give Alpha and Beta.
C1_FilteredCompanies ==
    \A s \in Sessions :
        LET S == fund_filter[s]
            Y == year_filter[s]
            df == fc[s].df
        IN  /\ (YearsParse /\ fc[s].state # "invalid") => fc[s].state = "value"
            /\ fc[s].state = "value" =>
                  /\ ~fc[s].alias
                  /\ Increasing(df.index)
                  /\ Range(df.index) =
                        {companies.index[i] :
                            i \in {j \in 1..NRows(companies) : Wanted(j, S, Y)}}
                  /\ AgreesOn(df, companies, CompanyColumns)
                  /\ df.index = FundThenYear(S, Y).index
                  /\ (companies = companies0 /\ S = {} /\ Y = 2019) =>
                        Column(df, "Company") = <<"Alpha", "Beta">>

C1_Witness ==
    /\ companies = companies0
    /\ fund_filter["s1"] = {"Fund II", "Fund X"}
    /\ year_filter["s1"] = 2019
    /\ fc["s1"].state = "value"
    /\ Column(fc["s1"].df, "Company") = <<"Beta">>

\* C2: filtered_funds returns the full fund collection itself for the empty
\* selection, and otherwise exactly the funds whose name is selected, in
\* original order; a selected name that is no fund adds no row, and no
\* selection raises.
C2_FilteredFunds ==
    \A s \in Sessions :
        LET S == fund_filter[s]
            df == Deref(ff[s], funds)
        IN  /\ ff[s].state # "error"
            /\ ff[s].state = "value" =>
                  /\ S = {} => ff[s].alias /\ df = funds
                  /\ S # {} =>
                        /\ df.columns = funds.columns
                        /\ Increasing(df.index)
                        /\ Range(df.index) =
                              {funds.index[i] :
                                  i \in {j \in 1..NRows(funds) :
                                            funds.data[j]["Fund"] \in S}}
                        /\ AgreesOn(df, funds, FundColumns)

C2_Witness ==
    /\ fund_filter["s1"] = {"Fund II", "Fund X"}
    /\ ff["s1"].state = "value"
    /\ Column(ff["s1"].df, "Fund") = <<"Fund II">>

\* The event that became row k of the plotted table, as a row of cashflows.
EventOf(df, k) == CHOOSE i \in 1..NRows(cashflows) : cashflows.index[i] = df.index[k]

\* Event j comes at or before event i: an earlier date, or the same date and
\* not later in the input.
AtOrBefore(j, i) ==
    \/ StrLess(cashflows.data[j]["Date"], cashflows.data[i]["Date"])
    \/ cashflows.data[j]["Date"] = cashflows.data[i]["Date"] /\ j <= i

C4_Idempotent ==
    [][\A s \in Sessions :
          (fund_filter'[s] = fund_filter[s] /\ year_filter'[s] = year_filter[s]) =>
              /\ fc[s].state # "invalid" => fc'[s] = fc[s]
              /\ ff[s].state # "invalid" => ff'[s] = ff[s]]_vars

\* C5: the five module-level tables keep the rows, columns and order they
\* have at process start.
C5_StoreReadOnly ==
    /\ funds = funds0
    /\ companies = companies0
    /\ cashflows = cashflows0
    /\ pipeline_data = pipeline_data0
    /\ lp_data = lp_data0

C5_Witness ==
    /\ ff["s1"].state = "value" /\ ff["s1"].alias
    /\ fc["s2"].state = "value" /\ "Holding" \in Range(fc["s2"].df.columns)
    /\ cumulative # NoTable

\* C6: when some investment year does not parse as an integer,
\* filtered_companies raises whatever the selection and the cutoff: it
\* returns no table, partial or with a default year.
C6_FatalYear ==
    ~YearsParse =>
        \A s \in Sessions :
            /\ fc[s].state \in {"invalid", "error"}
            /\ CompaniesAfterCall(s).state = "error"

C6_Witness ==
    /\ ~InvestmentYear(3).ok
    /\ fund_filter["s1"] = {"Fund I"}
    /\ year_filter["s1"] = YearInit
    /\ fc["s1"].state = "error"

\* C7: every row of the table holding_period plots has Holding = (exit year if
\* present, else 2025) - investment year; on the literal data Alpha gets 4 and
\* Beta gets 6.
C7_HoldingPeriod ==
    \A s \in Sessions :
        (fc[s].state = "value" /\ "Holding" \in Range(fc[s].df.columns)) =>
            \A k \in 1..NRows(fc[s].df) :
                LET row == fc[s].df.data[k]
                IN  /\ row["Holding"] =
                          (IF row["Exit Date"].isna THEN 2025
                           ELSE PyInt(row["Exit Date"]).val)
                          - PyInt(row["Investment Date"]).val
                    /\ companies = companies0 =>
                          /\ row["Company"] = "Alpha" => row["Holding"] = 4
                          /\ row["Company"] = "Beta" => row["Holding"] = 6

C7_Witness ==
    /\ companies = companies0
    /\ fc["s1"].state = "value"
    /\ Column(fc["s1"].df, "Company") = <<"Alpha", "Beta">>
    /\ "Holding" \in Range(fc["s1"].df.columns)
    /\ Column(fc["s1"].df, "Holding") = <<4, 6>>

\* The sum of column c over the funds a selection S keeps.
SelectedSum(c, S) ==
    SumSeq([i \in 1..NRows(funds) |->
        IF S = {} \/ funds.data[i]["Fund"] \in S THEN funds.data[i][c] ELSE 0])

\* What summary_table shows to session s.
summary_table_value(s) == summary(Deref(FundsAfterCall(s), funds))

\* C8: the four summary values are the column sums over the funds the
\* selection keeps; with no selection they are 600, 520, 410 and 200.
C8_Summary ==
    \A s \in Sessions :
        LET S == fund_filter[s]
            shown == summary_table_value(s)
        IN  /\ shown = << <<"Total Commitment",    SelectedSum("Commitment", S)>>,
                          <<"Total Called",        SelectedSum("Called", S)>>,
                          <<"Total Distributions", SelectedSum("Distributions", S)>>,
                          <<"NAV",                 SelectedSum("NAV", S)>> >>
            /\ S = {} => [k \in 1..4 |-> shown[k][2]] = <<600, 520, 410, 200>>

C8_Witness ==
    /\ fund_filter["s1"] = {"Fund II"}
    /\ ff["s1"].state = "value"
    /\ summary(ff["s1"].df)[2] = <<"Total Called", 180>>
    /\ fund_filter["s2"] = {}
    /\ ff["s2"].state = "value"

\* The labels of the rows the calcs of session s hold, as its own inputs
\* decide them.
OwnResults(s) ==
    /\ fc[s].state = "value" =>
          Range(fc[s].df.index) =
              {companies.index[i] :
                  i \in {j \in 1..NRows(companies) :
                            Wanted(j, fund_filter[s], year_filter[s])}}
    /\ ff[s].state = "value" =>
          Range(Deref(ff[s], funds).index) =
              {funds.index[i] :
                  i \in {j \in 1..NRows(funds) :
                            fund_filter[s] = {} \/ funds.data[j]["Fund"] \in fund_filter[s]}}

SessionState(s) == <<fund_filter[s], year_filter[s], ff[s], fc[s]>>

\* C9: what a session holds is decided by its own selection and cutoff, and a
\* step that changes the inputs or the cached tables of one session leaves
\* those of every other session as they are.
C9_SessionsIsolated ==
    /\ [](\A s \in Sessions : OwnResults(s))
    /\ [][\A t \in Sessions :
             SessionState(t)' # SessionState(t) =>
                 \A s \in Sessions \ {t} : SessionState(s)' = SessionState(s)]_vars

C9_Witness ==
    /\ fund_filter["s1"] = {"Fund I"} /\ year_filter["s1"] = 2018
    /\ fund_filter["s2"] = {"Fund II"} /\ year_filter["s2"] = 2019
    /\ fc["s1"].state = "value" /\ Column(fc["s1"].df, "Company") = <<"Alpha">>
    /\ fc["s2"].state = "value" /\ Column(fc["s2"].df, "Company") = <<"Beta">>
    /\ ff["s1"].state = "value" /\ ff["s2"].state = "value"

\* What company_table shows to session s: the object filtered_companies()
\* returns.
company_table_value(s) == Deref(CompaniesAfterCall(s), companies)

\* C10: whatever has been rendered before, company_table shows exactly the
\* seven company columns.
C10_SevenColumns ==
    \A s \in Sessions :
        CompaniesAfterCall(s).state = "value" =>
            company_table_value(s).columns = CompanyColumns

=============================================================================
